---------------------------- MODULE Spec2Model ----------------------------
(***************************************************************************)
(* A model of humblegen's embed resolver (parser/embeds.rs) and of its Elm *)
(* backend (backend/elm.rs).                                               *)
(*                                                                         *)
(* Spec      : resolve_embeds run on a family of humble specs.             *)
(***************************************************************************)
EXTENDS Naturals, Integers, Sequences, FiniteSets, TLC

VARIABLES
    spec,               \* the Spec resolve_embeds mutates in place
    input,              \* the Spec as it was handed to the current call
    pc,                 \* position of the run
    changed,            \* resolve_embeds: the Cell `changed`
    one_level_changed,  \* spec_resolve_embeds_one_level: the local `changed`
    replacements,       \* spec_resolve_embeds_one_level: the map `replacements`
    iter,               \* resolve_embeds: items taken from the range 0..=MAX_EMBED_DEPTH
    calls,              \* number of calls of resolve_embeds made on `spec`
    codec,              \* a run of the codec generators and of the code they generate
    gen                 \* a run of Generator::generate: file system and IndentWriter

vars == <<spec, input, pc, changed, one_level_changed, replacements, iter, calls,
          codec, gen>>

resolver_vars == <<spec, input, pc, changed, one_level_changed, replacements, iter, calls>>

---------------------------------------------------------------------------
(* Bounds of the model.                                                    *)

MaxFields == 2      \* longest field list of a struct of the pair family
MaxChain  == 12     \* longest acyclic embed chain S0 .. S<MaxChain>
MaxCycle  == 3      \* longest embed cycle
MaxCalls  == 2      \* calls of resolve_embeds on the same Spec

---------------------------------------------------------------------------
(* The AST (crate::ast), as far as the resolver reads it.                  *)

MAX_EMBED_DEPTH == 10

Atom(a) == [k |-> "BuiltIn", atom |-> a]

\* FieldNode with an ordinary FieldDefPair
PlainField(n) == [name |-> n, is_embed |-> FALSE, type_ident |-> Atom("I32")]

\* FieldNode whose FieldDefPair is an embed marker naming struct n
EmbedField(n) == [name |-> n, is_embed |-> TRUE, type_ident |-> Atom("Empty")]

is_embed(pair) == pair.is_embed

\* doc_comment: Option<String>, <<>> for None and <<ds>> for Some(ds)
StructDef(n, fs) ==
    [kind |-> "StructDef", name |-> n, doc_comment |-> <<>>, fields |-> fs, variants |-> <<>>]
EnumDef(n, vs) ==
    [kind |-> "EnumDef", name |-> n, doc_comment |-> <<>>, fields |-> <<>>, variants |-> vs]
ServiceDef(n) ==
    [kind |-> "ServiceDef", name |-> n, doc_comment |-> <<>>, fields |-> <<>>, variants |-> <<>>]

\* a FieldNode of a given type
Field(n, t) == [name |-> n, is_embed |-> FALSE, type_ident |-> t]

StructItems(s) == {i \in 1..Len(s) : s[i].kind = "StructDef"}

MaxOf(S) == CHOOSE m \in S : \A x \in S : x <= m

EmptyMap == [n \in {} |-> <<>>]

---------------------------------------------------------------------------
(* spec_resolve_embeds_one_level                                           *)

\* HashMap::from_iter over (name, fields) of the structs: a later struct of
\* the same name replaces an earlier one.
all_structs_field_nodes(s) ==
    [n \in {s[i].name : i \in StructItems(s)} |->
        s[MaxOf({i \in StructItems(s) : s[i].name = n})].fields]

\* mutant: a field that is no embed marker is not copied through
map_field_node_markers_only(field_node, snapshot) ==
    IF is_embed(field_node)
    THEN snapshot[field_node.name]
    ELSE <<>>

\* the closure of .map(): an embed marker yields a clone of the fields of
\* the struct it names, any other field yields itself
map_field_node(field_node, snapshot) ==
    IF is_embed(field_node)
    THEN snapshot[field_node.name]
    ELSE <<field_node>>

\* .map(..).flatten() over field_nodes[lo..hi], in order
RECURSIVE flatten_map(_, _, _, _)
flatten_map(field_nodes, lo, hi, snapshot) ==
    IF lo > hi THEN <<>>
    ELSE IF lo = hi THEN map_field_node(field_nodes[lo], snapshot)
    ELSE LET mid == (lo + hi) \div 2
         IN  flatten_map(field_nodes, lo, mid, snapshot)
                 \o flatten_map(field_nodes, mid + 1, hi, snapshot)

\* mutant: the embedded fields are appended after the struct's own fields
new_field_nodes_embeds_last(field_nodes, snapshot) ==
    SelectSeq(field_nodes, LAMBDA f : ~is_embed(f))
        \o flatten_map(SelectSeq(field_nodes, is_embed), 1,
                       Len(SelectSeq(field_nodes, is_embed)), snapshot)

new_field_nodes(field_nodes, snapshot) ==
    flatten_map(field_nodes, 1, Len(field_nodes), snapshot)

\* the unwrap_or_else panic: some embed marker names no struct
unknown_embed(s) ==
    \E i \in StructItems(s) : \E j \in 1..Len(s[i].fields) :
        /\ is_embed(s[i].fields[j])
        /\ s[i].fields[j].name \notin DOMAIN all_structs_field_nodes(s)

\* mutant: a pass counts as a change when some field list would differ
any_embed_by_diff(s) ==
    \E i \in StructItems(s) :
        flatten_map(s[i].fields, 1, Len(s[i].fields), all_structs_field_nodes(s))
            # s[i].fields

\* `changed = true` is executed for every embed marker visited
any_embed(s) ==
    \E i \in StructItems(s) : \E j \in 1..Len(s[i].fields) : is_embed(s[i].fields[j])

\* the collect loop: replacements.entry(struct_name).or_default().extend(..)
RECURSIVE collect_loop(_, _, _)
collect_loop(s, i, repl) ==
    IF i > Len(s) THEN repl
    ELSE IF s[i].kind # "StructDef" THEN collect_loop(s, i + 1, repl)
    ELSE LET name == s[i].name
             old  == IF name \in DOMAIN repl THEN repl[name] ELSE <<>>
             new  == new_field_nodes(s[i].fields, all_structs_field_nodes(s))
         IN  collect_loop(s, i + 1,
                 [n \in DOMAIN repl \cup {name} |->
                     IF n = name THEN old \o new ELSE repl[n]])

\* mutant: the new field nodes are appended to the struct's field list
RECURSIVE apply_loop_extend(_, _, _)
apply_loop_extend(s, i, repl) ==
    IF i > Len(s) THEN s
    ELSE IF s[i].kind # "StructDef" THEN apply_loop_extend(s, i + 1, repl)
    ELSE IF s[i].name \notin DOMAIN repl THEN apply_loop_extend(s, i + 1, repl)
    ELSE apply_loop_extend([s EXCEPT ![i].fields = @ \o repl[s[i].name]], i + 1,
                           [n \in DOMAIN repl \ {s[i].name} |-> repl[n]])

\* the apply loop: replacements.remove_entry(&struct_name)
RECURSIVE apply_loop(_, _, _)
apply_loop(s, i, repl) ==
    IF i > Len(s) THEN s
    ELSE IF s[i].kind # "StructDef" THEN apply_loop(s, i + 1, repl)
    ELSE IF s[i].name \notin DOMAIN repl THEN apply_loop(s, i + 1, repl)
    ELSE apply_loop([s EXCEPT ![i].fields = repl[s[i].name]], i + 1,
                    [n \in DOMAIN repl \ {s[i].name} |-> repl[n]])

---------------------------------------------------------------------------
(* The specs resolve_embeds is run on.                                     *)

NameOf(i) == "S" \o ToString(i)
FieldOf(i) == "f" \o ToString(i)

RECURSIVE SeqsUpTo(_, _)
SeqsUpTo(S, n) ==
    IF n = 0 THEN {<<>>}
    ELSE LET shorter == SeqsUpTo(S, n - 1)
         IN  shorter \cup {Append(q, x) : q \in shorter, x \in S}

EmbedCount(fs) == Cardinality({j \in 1..Len(fs) : is_embed(fs[j])})

\* item i embeds item j: a marker of i names j, and j is the struct the
\* lookup by name finds
EmbedsItem(s, i, j) ==
    /\ i \in StructItems(s) /\ j \in StructItems(s)
    /\ \E f \in 1..Len(s[i].fields) :
          /\ is_embed(s[i].fields[f])
          /\ s[i].fields[f].name = s[j].name
    /\ j = MaxOf({m \in StructItems(s) : s[m].name = s[j].name})

RECURSIVE ReachIn(_, _, _, _)
ReachIn(s, i, j, n) ==
    IF n = 0 THEN FALSE
    ELSE \/ EmbedsItem(s, i, j)
         \/ \E m \in StructItems(s) : EmbedsItem(s, i, m) /\ ReachIn(s, m, j, n - 1)

HasCycle(s) == \E i \in StructItems(s) : ReachIn(s, i, i, Len(s))

PairPool(own) == {PlainField(own), EmbedField("S0"), EmbedField("S1"), EmbedField("S9")}

PairSpecs ==
    {<<StructDef(n1, l1), StructDef(n2, l2)>> :
        n1 \in {"S0"}, n2 \in {"S0", "S1"},
        l1 \in SeqsUpTo(PairPool("f0"), MaxFields),
        l2 \in SeqsUpTo(PairPool("f1"), MaxFields)}

\* S0 { f0, ..S1 }, S1 { f1, ..S2 }, .. , Sn { fn }
Chain(n) ==
    [i \in 1..(n + 1) |->
        StructDef(NameOf(i - 1),
            IF i = n + 1 THEN <<PlainField(FieldOf(i - 1))>>
            ELSE <<PlainField(FieldOf(i - 1)), EmbedField(NameOf(i))>>)]

\* S0 { ..S1, f0 }, .. , S<n-1> { ..S0, f<n-1> }
Cycle(n) ==
    [i \in 1..n |->
        StructDef(NameOf(i - 1),
            <<EmbedField(NameOf(i % n)), PlainField(FieldOf(i - 1))>>)]

\* the module documentation's example, between an enum and a service
Monster ==
    << EnumDef("Monster", <<>>),
       StructDef("Monster", <<PlainField("id"), EmbedField("MonsterData")>>),
       ServiceDef("MonsterApi"),
       StructDef("MonsterData", <<PlainField("name"), PlainField("hp")>>) >>

\* a struct with two or more markers on an embed cycle squares its field
\* list every pass; such specs are left out
Bounded(s) == ~HasCycle(s) \/ \A i \in StructItems(s) : EmbedCount(s[i].fields) <= 1

InputSpecs ==
    {s \in PairSpecs : Bounded(s)}
        \cup {Chain(n) : n \in 1..MaxChain}
        \cup {Cycle(n) : n \in 1..MaxCycle}
        \cup {Monster}

---------------------------------------------------------------------------
(* resolve_embeds                                                          *)

Init ==
    /\ spec \in InputSpecs
    /\ input = spec
    /\ pc = "loop"
    /\ changed = TRUE
    /\ one_level_changed = FALSE
    /\ replacements = EmptyMap
    /\ iter = 0
    /\ calls = 1
    /\ codec = [pc |-> "idle"]
    /\ gen = [pc |-> "idle"]

\* mutant: the range of the loop is 0..MAX_EMBED_DEPTH, its end left out
LoopNext_exclusive ==
    /\ pc = "loop"
    /\ IF iter < MAX_EMBED_DEPTH /\ changed
       THEN /\ pc' = "collect"
            /\ iter' = iter + 1
       ELSE /\ pc' = "after_loop"
            /\ iter' = iter
    /\ UNCHANGED <<spec, input, changed, one_level_changed, replacements, calls>>
    /\ UNCHANGED <<codec, gen>>

\* one step of `for _ in (0..=MAX_EMBED_DEPTH).take_while(|_| changed.get())`
LoopNext ==
    /\ pc = "loop"
    /\ IF iter <= MAX_EMBED_DEPTH /\ changed
       THEN /\ pc' = "collect"
            /\ iter' = iter + 1
       ELSE /\ pc' = "after_loop"
            /\ iter' = iter
    /\ UNCHANGED <<spec, input, changed, one_level_changed, replacements, calls>>
    /\ UNCHANGED <<codec, gen>>

\* mutant: a single phase, every struct overwritten as soon as its new
\* field nodes are computed
Collect_single_phase ==
    /\ pc = "collect"
    /\ IF unknown_embed(spec)
       THEN LET bad == {i \in StructItems(spec) : \E j \in 1..Len(spec[i].fields) :
                           /\ is_embed(spec[i].fields[j])
                           /\ spec[i].fields[j].name
                                  \notin DOMAIN all_structs_field_nodes(spec)}
                first == CHOOSE i \in bad : \A m \in bad : i <= m
            IN  /\ pc' = "panic_unknown_type"
                /\ spec' = [i \in 1..Len(spec) |->
                              IF i < first /\ i \in StructItems(spec)
                              THEN [spec[i] EXCEPT !.fields =
                                      new_field_nodes(@, all_structs_field_nodes(spec))]
                              ELSE spec[i]]
                /\ UNCHANGED <<one_level_changed, replacements>>
       ELSE /\ pc' = "apply"
            /\ one_level_changed' = any_embed(spec)
            /\ replacements' = collect_loop(spec, 1, EmptyMap)
            /\ spec' = spec
    /\ UNCHANGED <<input, changed, iter, calls>>
    /\ UNCHANGED <<codec, gen>>

\* spec_resolve_embeds_one_level up to drop(all_structs_field_nodes)
Collect ==
    /\ pc = "collect"
    /\ IF unknown_embed(spec)
       THEN /\ pc' = "panic_unknown_type"
            /\ UNCHANGED <<one_level_changed, replacements>>
       ELSE /\ pc' = "apply"
            /\ one_level_changed' = any_embed(spec)
            /\ replacements' = collect_loop(spec, 1, EmptyMap)
    /\ UNCHANGED <<spec, input, changed, iter, calls>>
    /\ UNCHANGED <<codec, gen>>

\* spec_resolve_embeds_one_level from "apply replacements" to its return,
\* and changed.set(..) of the caller
Apply ==
    /\ pc = "apply"
    /\ spec' = apply_loop(spec, 1, replacements)
    /\ changed' = one_level_changed
    /\ one_level_changed' = FALSE
    /\ replacements' = EmptyMap
    /\ pc' = "loop"
    /\ UNCHANGED <<input, iter, calls>>
    /\ UNCHANGED <<codec, gen>>

\* mutant: the check of `changed` after the loop is missing
AfterLoop_unchecked ==
    /\ pc = "after_loop"
    /\ pc' = "returned"
    /\ UNCHANGED <<spec, input, changed, one_level_changed, replacements, iter, calls>>
    /\ UNCHANGED <<codec, gen>>

\* `if changed.get() { panic!("maximum embed depth is {}", ..) }`
AfterLoop ==
    /\ pc = "after_loop"
    /\ pc' = IF changed THEN "panic_max_depth" ELSE "returned"
    /\ UNCHANGED <<spec, input, changed, one_level_changed, replacements, iter, calls>>
    /\ UNCHANGED <<codec, gen>>

\* resolve_embeds is called again on the Spec it returned
CallAgain ==
    /\ pc = "returned"
    /\ calls < MaxCalls
    /\ calls' = calls + 1
    /\ input' = spec
    /\ pc' = "loop"
    /\ changed' = TRUE
    /\ iter' = 0
    /\ UNCHANGED <<spec, one_level_changed, replacements>>
    /\ UNCHANGED <<codec, gen>>

Next == LoopNext \/ Collect \/ Apply \/ AfterLoop \/ CallAgain

Spec == Init /\ [][Next]_vars

---------------------------------------------------------------------------
(* Properties of resolve_embeds.                                           *)

UniqueStructNames(s) ==
    \A i, j \in StructItems(s) : s[i].name = s[j].name => i = j

EveryEmbedNamesAStruct(s) ==
    \A i \in StructItems(s) : \A f \in 1..Len(s[i].fields) :
        is_embed(s[i].fields[f]) =>
            \E j \in StructItems(s) : s[j].name = s[i].fields[f].name

StructNamed(s, n) == s[CHOOSE i \in StructItems(s) : s[i].name = n]

\* the recursive expansion of a field list: every marker replaced, where it
\* stands, by the expansion of the fields of the struct it names (a marker
\* nested deeper than `fuel` structs is left in place)
RECURSIVE FullExpansion(_, _, _)
FullExpansion(s, fs, fuel) ==
    IF fs = <<>> THEN <<>>
    ELSE LET head == IF is_embed(Head(fs)) /\ fuel > 0
                     THEN FullExpansion(s, StructNamed(s, Head(fs).name).fields, fuel - 1)
                     ELSE <<Head(fs)>>
         IN  head \o FullExpansion(s, Tail(fs), fuel)

Panicked == pc \in {"panic_unknown_type", "panic_max_depth"}

\* the positions from which the run takes a further step: each of LoopNext,
\* Collect, Apply and AfterLoop is guarded by its position alone
Running == pc \in {"loop", "collect", "apply", "after_loop"}

\* C1: when resolve_embeds returns normally on a Spec with unique struct
\* names whose markers all name a struct, every struct's field list is the
\* full recursive expansion of its original field list, in order; nothing
\* else of the Spec differs.
C1_FullExpansion ==
    (pc = "returned" /\ calls = 1
        /\ UniqueStructNames(input) /\ EveryEmbedNamesAStruct(input)) =>
        /\ Len(spec) = Len(input)
        /\ \A i \in 1..Len(spec) :
              /\ spec[i].kind = input[i].kind
              /\ spec[i].name = input[i].name
              /\ spec[i].fields = FullExpansion(input, input[i].fields, Len(input))

\* a struct with a marker between its own fields, naming a struct that
\* itself embeds a third one, has been resolved
C1_Witness ==
    /\ pc = "returned" /\ calls = 1
    /\ UniqueStructNames(input) /\ EveryEmbedNamesAStruct(input)
    /\ \E i \in StructItems(input) : \E f \in 1..Len(input[i].fields) :
          /\ is_embed(input[i].fields[f])
          /\ f > 1
          /\ EmbedCount(StructNamed(input, input[i].fields[f].name).fields) > 0
          /\ Len(spec[i].fields) >= 3

\* C2: when resolve_embeds has returned normally, no field list of any
\* struct contains an embed marker.
C2_NoEmbedLeft ==
    pc = "returned" =>
        \A i \in StructItems(spec) : EmbedCount(spec[i].fields) = 0

C2_Witness ==
    /\ pc = "returned" /\ calls = 1
    /\ \E i \in StructItems(input) : EmbedCount(input[i].fields) >= 2
    /\ \A i \in StructItems(spec) : EmbedCount(spec[i].fields) = 0

\* C3: on a Spec whose markers form a cycle (all targets existing)
\* resolve_embeds never returns normally and never raises the unknown-type
\* error, runs at most MAX_EMBED_DEPTH + 1 passes, leaves the loop only with
\* `changed` set, and stops only in the maximum-embed-depth panic.
C3_CycleAborts ==
    (HasCycle(input) /\ EveryEmbedNamesAStruct(input)) =>
        /\ Running \/ pc = "panic_max_depth"
        /\ iter <= MAX_EMBED_DEPTH + 1
        /\ (pc = "after_loop" => changed /\ iter = MAX_EMBED_DEPTH + 1)
        /\ (pc = "panic_max_depth" => iter = MAX_EMBED_DEPTH + 1)

\* a cycle of two structs has run into the depth panic
C3_Witness ==
    /\ pc = "panic_max_depth"
    /\ EveryEmbedNamesAStruct(input)
    /\ UniqueStructNames(input)
    /\ \E i, j \in StructItems(input) :
          i # j /\ EmbedsItem(input, i, j) /\ EmbedsItem(input, j, i)

\* C4: a Spec with a marker that names no struct makes resolve_embeds stop
\* in the unknown-type panic of the first collect phase, and the Spec is
\* the input Spec from the start of the call up to the panic.
C4_UnknownEmbedAbortsBeforeCommit ==
    ~EveryEmbedNamesAStruct(input) =>
        /\ spec = input
        /\ pc \in {"loop", "collect", "panic_unknown_type"}
        /\ (pc = "loop" => iter = 0)
        /\ (pc # "loop" => iter = 1)
        /\ (pc = "panic_unknown_type" \/ ENABLED Next)

\* the panic was raised although an earlier struct has a marker that could
\* be resolved
C4_Witness ==
    /\ pc = "panic_unknown_type"
    /\ Len(input) >= 2
    /\ \E f \in 1..Len(input[1].fields) :
          /\ is_embed(input[1].fields[f])
          /\ \E j \in StructItems(input) : input[j].name = input[1].fields[f].name
    /\ EveryEmbedNamesAStruct(<<input[1]>> \o <<StructDef(input[2].name, <<>>)>>)

\* nesting depth of the first struct of an acyclic chain: the number of
\* structs below it
IsChain(s) == \E n \in 1..MaxChain : s = Chain(n)
ChainDepth(s) == Len(s) - 1

\* C5: an acyclic chain nested more than MAX_EMBED_DEPTH levels deep makes
\* resolve_embeds abort with the maximum-embed-depth error; only chains of
\* nesting depth at most MAX_EMBED_DEPTH are resolved.
C5_DeepChainAborts ==
    (IsChain(input) /\ ChainDepth(input) > MAX_EMBED_DEPTH) =>
        /\ Running \/ pc = "panic_max_depth"

IdempotentCall ==
        /\ spec = input
        /\ ~one_level_changed
        /\ ~Panicked
        /\ iter <= 1
        /\ (pc \in {"after_loop", "returned"} => iter = 1 /\ ~changed)

\* C6 (as amended): a call of resolve_embeds on a Spec with unique struct
\* names that an earlier call returned makes a single pass with no
\* substitution, returns normally and leaves the Spec as it was.
C6_IdempotentUniqueNames ==
    (calls >= 2 /\ UniqueStructNames(input)) => IdempotentCall

\* C6 (as claimed): a call of resolve_embeds on a Spec an earlier call
\* returned makes a single pass with no substitution, returns normally and
\* leaves every struct's field list as it was.
C6_Idempotent ==
    calls >= 2 =>
        /\ spec = input
        /\ ~one_level_changed
        /\ ~Panicked
        /\ iter <= 1
        /\ (pc \in {"after_loop", "returned"} => iter = 1 /\ ~changed)

\* the second call has returned on a Spec the first call had to expand
C6_Witness ==
    /\ calls = 2 /\ pc = "returned"
    /\ UniqueStructNames(input)
    /\ Len(spec[1].fields) >= MaxChain

---------------------------------------------------------------------------
(* Text helpers of the Elm backend (backend/elm.rs).                       *)

Lowers == "abcdefghijklmnopqrstuvwxyz"
Uppers == "ABCDEFGHIJKLMNOPQRSTUVWXYZ"
Digits == "0123456789"

CharAt(s, i) == SubSeq(s, i, i)

\* position of the one-character string c in s, 0 when it is not there
IndexIn(s, c) ==
    IF \E i \in 1..Len(s) : CharAt(s, i) = c
    THEN CHOOSE i \in 1..Len(s) : CharAt(s, i) = c /\ \A j \in 1..(i - 1) : CharAt(s, j) # c
    ELSE 0

\* str::contains
Contains(s, c) == IndexIn(s, c) # 0

is_uppercase(c) == Contains(Uppers, c)
is_lowercase(c) == Contains(Lowers, c)
is_numeric(c) == Contains(Digits, c)
is_alphanumeric(c) == is_uppercase(c) \/ is_lowercase(c) \/ is_numeric(c)
to_ascii_lowercase(c) == IF is_uppercase(c) THEN CharAt(Lowers, IndexIn(Uppers, c)) ELSE c
to_ascii_uppercase(c) == IF is_lowercase(c) THEN CharAt(Uppers, IndexIn(Lowers, c)) ELSE c

\* Inflector's camel-case conversion, character by character: a separator
\* starts a new word, the first letter of a later word and an upper-case
\* letter after a lower-case one are written in upper case, every other
\* letter in lower case
RECURSIVE camel_like(_, _, _, _, _, _)
camel_like(s, i, new_word, first_word, last_char, found_real_char) ==
    IF i > Len(s) THEN ""
    ELSE LET c == CharAt(s, i)
         IN  IF ~is_alphanumeric(c) /\ found_real_char
             THEN camel_like(s, i + 1, TRUE, first_word, last_char, found_real_char)
             ELSE IF ~is_alphanumeric(c)
             THEN camel_like(s, i + 1, new_word, first_word, last_char, found_real_char)
             ELSE IF is_numeric(c)
             THEN c \o camel_like(s, i + 1, TRUE, first_word, last_char, TRUE)
             ELSE IF new_word \/ (is_lowercase(last_char) /\ is_uppercase(c))
             THEN (IF first_word THEN to_ascii_lowercase(c) ELSE to_ascii_uppercase(c))
                      \o camel_like(s, i + 1, FALSE, FALSE, last_char, TRUE)
             ELSE to_ascii_lowercase(c)
                      \o camel_like(s, i + 1, new_word, first_word, c, TRUE)

to_camel_case(s) == camel_like(s, 1, FALSE, FALSE, " ", FALSE)

\* itertools join
RECURSIVE Join(_, _)
Join(parts, sep) ==
    IF parts = <<>> THEN ""
    ELSE IF Len(parts) = 1 THEN parts[1]
    ELSE parts[1] \o sep \o Join(Tail(parts), sep)

\* Add parenthesis if necessary
to_atom(s) == IF Contains(s, " ") THEN "(" \o s \o ")" ELSE s

\* Construct name for a field
field_name(ident) == to_camel_case(ident)

decoder_name(ident) == to_camel_case(ident \o "Decoder")
encoder_name(ident) == to_camel_case("encode" \o ident)
enum_string_decoder_name(ident) == to_camel_case("parseEnum" \o ident \o "FromString")

---------------------------------------------------------------------------
(* ast::TypeIdent and the codec generators.  A generator that panics       *)
(* yields the panic instead of text: todo!() and assert_eq!.               *)

AtomTypes ==
    {"Empty", "Str", "I32", "U32", "U8", "F64", "Bool", "DateTime", "Date", "Uuid", "Bytes"}

List(t) == [k |-> "List", inner |-> t]
Option(t) == [k |-> "Option", inner |-> t]
Result(ok, err) == [k |-> "Result", ok |-> ok, err |-> err]
Map(key, value) == [k |-> "Map", key |-> key, value |-> value]
Tuple(elements) == [k |-> "Tuple", elements |-> elements]
UserDefined(ident) == [k |-> "UserDefined", ident |-> ident]

PanicTodo == "!todo"
PanicAssert == "!assert_eq"
IsPanic(s) == s \in {PanicTodo, PanicAssert}

\* the first panic raised while the parts were generated in order
FirstPanic(parts) ==
    parts[CHOOSE i \in 1..Len(parts) :
              IsPanic(parts[i]) /\ \A j \in 1..(i - 1) : ~IsPanic(parts[j])]
AnyPanic(parts) == \E i \in 1..Len(parts) : IsPanic(parts[i])

xs(n) == [i \in 1..n |-> "x" \o ToString(i - 1)]

\* Generate elm code for a decoder for an atomic type
generate_atom_decoder(atom) ==
    CASE atom = "Empty" -> "(D.succeed ())"
      [] atom = "Str" -> "D.string"
      [] atom = "I32" -> "D.int"
      [] atom = "U32" -> "D.int"
      [] atom = "U8" -> "D.int"
      [] atom = "F64" -> "D.float"
      [] atom = "Bool" -> "D.bool"
      [] atom = "DateTime" -> "Iso8601.decoder"
      [] atom = "Date" -> "dateDecoder"
      [] atom = "Uuid" -> PanicTodo
      [] atom = "Bytes" -> PanicTodo

RECURSIVE generate_type_decoder(_)

\* Generate elm code for a pipeline that decodes tuple fields by index
generate_components_by_index_pipeline(elements) ==
    LET decoders == [i \in 1..Len(elements) |-> generate_type_decoder(elements[i])]
    IN  IF AnyPanic(decoders) THEN FirstPanic(decoders)
        ELSE Join([i \in 1..Len(elements) |->
                     "|> requiredIdx " \o ToString(i - 1) \o " " \o to_atom(decoders[i])],
                  " ")

\* Generate elm code for a decoder for a tuple
generate_tuple_decoder(tdef) ==
    LET parts == xs(Len(tdef.elements))
        field_decoders == generate_components_by_index_pipeline(tdef.elements)
    IN  IF IsPanic(field_decoders) THEN field_decoders
        ELSE "D.succeed (\\" \o Join(parts, " ") \o " -> (" \o Join(parts, ", ") \o ")) "
                 \o field_decoders

\* Generate elm code for a decoder for a type
generate_type_decoder(type_ident) ==
    CASE type_ident.k = "BuiltIn" -> generate_atom_decoder(type_ident.atom)
      [] type_ident.k = "List" ->
            LET inner == generate_type_decoder(type_ident.inner)
            IN  IF IsPanic(inner) THEN inner ELSE "D.list " \o to_atom(inner)
      [] type_ident.k = "Option" ->
            LET inner == generate_type_decoder(type_ident.inner)
            IN  IF IsPanic(inner) THEN inner ELSE "D.maybe " \o to_atom(inner)
      [] type_ident.k = "Result" -> PanicTodo
      [] type_ident.k = "Map" ->
            LET key == generate_type_decoder(type_ident.key)
                value == generate_type_decoder(type_ident.value)
            IN  IF IsPanic(key) THEN key
                ELSE IF key # "D.string" THEN PanicAssert
                ELSE IF IsPanic(value) THEN value
                ELSE "D.dict " \o to_atom(value)
      [] type_ident.k = "Tuple" -> generate_tuple_decoder(type_ident)
      [] type_ident.k = "UserDefined" -> decoder_name(type_ident.ident)

\* mutant: the encoder side takes the Uuid atom as a string
generate_atom_encoder_uuid(atom) ==
    CASE atom = "Empty" -> "(_ -> E.null)"
      [] atom = "Str" -> "E.string"
      [] atom \in {"I32", "U32", "U8"} -> "E.int"
      [] atom = "F64" -> "E.float"
      [] atom = "Bool" -> "E.bool"
      [] atom = "DateTime" -> "Iso8601.encode"
      [] atom = "Date" -> "encDate"
      [] atom = "Uuid" -> "E.string"
      [] atom = "Bytes" -> PanicTodo

\* Generate elm code for an atomic type encoder
generate_atom_encoder(atom) ==
    CASE atom = "Empty" -> "(_ -> E.null)"
      [] atom = "Str" -> "E.string"
      [] atom = "I32" -> "E.int"
      [] atom = "U32" -> "E.int"
      [] atom = "U8" -> "E.int"
      [] atom = "F64" -> "E.float"
      [] atom = "Bool" -> "E.bool"
      [] atom = "DateTime" -> "Iso8601.encode"
      [] atom = "Date" -> "encDate"
      [] atom = "Uuid" -> PanicTodo
      [] atom = "Bytes" -> PanicTodo

RECURSIVE generate_type_encoder(_)

\* Generate elm code for a tuple encoder
generate_tuple_encoder(tdef) ==
    LET encoders == [i \in 1..Len(tdef.elements) |-> generate_type_encoder(tdef.elements[i])]
    IN  IF AnyPanic(encoders) THEN FirstPanic(encoders)
        ELSE "\\(" \o Join(xs(Len(tdef.elements)), ", ") \o ") -> E.list identity [ "
                 \o Join([i \in 1..Len(tdef.elements) |->
                            encoders[i] \o " x" \o ToString(i - 1)], ", ")
                 \o " ]"

\* Generate elm code for a type encoder
generate_type_encoder(type_ident) ==
    CASE type_ident.k = "BuiltIn" -> generate_atom_encoder(type_ident.atom)
      [] type_ident.k = "List" ->
            LET inner == generate_type_encoder(type_ident.inner)
            IN  IF IsPanic(inner) THEN inner ELSE "E.list " \o to_atom(inner)
      [] type_ident.k = "Option" ->
            LET inner == generate_type_encoder(type_ident.inner)
            IN  IF IsPanic(inner) THEN inner ELSE "encMaybe " \o to_atom(inner)
      [] type_ident.k = "Result" -> PanicTodo
      [] type_ident.k = "Map" ->
            LET key == generate_type_encoder(type_ident.key)
                value == generate_type_encoder(type_ident.value)
            IN  IF IsPanic(key) THEN key
                ELSE IF key # "E.string" THEN PanicAssert
                ELSE IF IsPanic(value) THEN value
                ELSE "E.dict identity " \o to_atom(value)
      [] type_ident.k = "Tuple" -> generate_tuple_encoder(type_ident)
      [] type_ident.k = "UserDefined" -> encoder_name(type_ident.ident)

\* mutant: the decoder looks the field up under its camelCase name
generate_field_decoder_camel_key(field) ==
    LET decoder == generate_type_decoder(field.type_ident)
    IN  IF IsPanic(decoder) THEN decoder
        ELSE "|> required \"" \o field_name(field.name) \o "\" " \o to_atom(decoder)

\* Generate elm code for decoder for a field
generate_field_decoder(field) ==
    LET decoder == generate_type_decoder(field.type_ident)
    IN  IF IsPanic(decoder) THEN decoder
        ELSE "|> required \"" \o field.name \o "\" " \o to_atom(decoder)

\* the field decoders of a struct, in the order they are joined
struct_field_decoders(sdef) ==
    [i \in 1..Len(sdef.fields) |-> generate_field_decoder(sdef.fields[i])]

\* Generate elm code for decoder for a struct
generate_struct_decoder(sdef) ==
    LET field_decoders == struct_field_decoders(sdef)
    IN  IF AnyPanic(field_decoders) THEN FirstPanic(field_decoders)
        ELSE decoder_name(sdef.name) \o " : D.Decoder " \o sdef.name \o " \n"
                 \o decoder_name(sdef.name) \o " =\n   D.succeed " \o sdef.name
                 \o "\n        " \o Join(field_decoders, "\n        ")

\* Generate elm code for a field encoder
generate_field_encoder(field) ==
    LET value_encoder == generate_type_encoder(field.type_ident)
    IN  IF IsPanic(value_encoder) THEN value_encoder
        ELSE "(\"" \o field.name \o "\", " \o to_atom(value_encoder)
                 \o " obj." \o field_name(field.name) \o ")"

\* the field encoders of a struct, in the order they are joined
struct_field_encoders(sdef) ==
    [i \in 1..Len(sdef.fields) |-> generate_field_encoder(sdef.fields[i])]

\* Generate elm code for a struct encoder
generate_struct_encoder(sdef) ==
    LET fields == struct_field_encoders(sdef)
    IN  IF AnyPanic(fields) THEN FirstPanic(fields)
        ELSE encoder_name(sdef.name) \o " : " \o sdef.name \o " -> E.Value\n"
                 \o encoder_name(sdef.name) \o " obj =\n    E.object\n        [ "
                 \o Join(fields, "\n        , ") \o "\n        ]"

---------------------------------------------------------------------------
(* Type declarations, written through an IndentWriter.  The text written   *)
(* is kept as its lines: a "\n" starts a new line, any other text goes to  *)
(* the end of the last line.                                               *)

\* IndentWriter::for_file, once the file is created
NewIndentWriter == [indent |-> 0, lines |-> <<"">>, underflow |-> FALSE]

write(file, s) == [file EXCEPT !.lines[Len(file.lines)] = @ \o s]

write_newline(file) == [file EXCEPT !.lines = Append(@, "")]

\* mutant: the indentation is kept
kill_indent_kept(file) == file

kill_indent(file) == [file EXCEPT !.indent = 0]

increase_indent(file) == [file EXCEPT !.indent = @ + 1]

\* `self.indent -= 1` on a usize: below zero is an arithmetic overflow
decrease_indent(file) ==
    IF file.indent = 0 THEN [file EXCEPT !.underflow = TRUE]
    ELSE [file EXCEPT !.indent = @ - 1]

RECURSIVE repeat(_, _)
repeat(s, n) == IF n = 0 THEN "" ELSE s \o repeat(s, n - 1)

tabs(file) == repeat("    ", file.indent)

start_line(file) == write(write_newline(file), tabs(file))

RECURSIVE empty_lines(_, _)
empty_lines(file, num) ==
    IF num = 0 THEN file ELSE empty_lines(write_newline(file), num - 1)

\* Generate elm code for an atomic type
generate_atom(atom) ==
    CASE atom = "Empty" -> "()"
      [] atom = "Str" -> "String"
      [] atom = "I32" -> "Int"
      [] atom = "U32" -> "Int"
      [] atom = "U8" -> "Int"
      [] atom = "F64" -> "Float"
      [] atom = "Bool" -> "Bool"
      [] atom = "DateTime" -> "Time.Posix"
      [] atom = "Date" -> "Date.Date"
      [] atom = "Uuid" -> "String"
      [] atom = "Bytes" -> "String"

\* Generate elm code for a type identifier
RECURSIVE generate_type_ident(_)
generate_type_ident(type_ident) ==
    CASE type_ident.k = "BuiltIn" -> generate_atom(type_ident.atom)
      [] type_ident.k = "List" -> "List " \o to_atom(generate_type_ident(type_ident.inner))
      [] type_ident.k = "Option" -> "Maybe " \o to_atom(generate_type_ident(type_ident.inner))
      [] type_ident.k = "Result" ->
            "Result " \o to_atom(generate_type_ident(type_ident.err))
                \o " " \o to_atom(generate_type_ident(type_ident.ok))
      [] type_ident.k = "Map" ->
            "Dict " \o to_atom(generate_type_ident(type_ident.key))
                \o " " \o to_atom(generate_type_ident(type_ident.value))
      [] type_ident.k = "Tuple" ->
            "(" \o Join([i \in 1..Len(type_ident.elements) |->
                           generate_type_ident(type_ident.elements[i])], ", ") \o ")"
      [] type_ident.k = "UserDefined" -> type_ident.ident

\* Generate elm code for a docstring: "{-| ds\n-}\n"
write_doc_comment(file, doc_comment) ==
    IF doc_comment = <<>> THEN file
    ELSE write_newline(write(write_newline(write(file, "{-| " \o doc_comment[1])), "-}"))

generate_struct_field(field, first, file) ==
    write(start_line(file),
          (IF first THEN "{ " ELSE ", ") \o field_name(field.name) \o ": "
              \o generate_type_ident(field.type_ident))

RECURSIVE struct_fields_loop(_, _, _)
struct_fields_loop(fields, idx, file) ==
    IF idx > Len(fields) THEN file
    ELSE struct_fields_loop(fields, idx + 1,
                            generate_struct_field(fields[idx], idx = 1, file))

generate_struct_fields(fields, file) ==
    decrease_indent(
        write(start_line(struct_fields_loop(fields, 1, increase_indent(file))), "}"))

generate_struct_def(def, file) ==
    empty_lines(
        generate_struct_fields(def.fields,
            write(write_doc_comment(start_line(kill_indent(file)), def.doc_comment),
                  "type alias " \o def.name \o " =")),
        2)

\* Generate elm code for a variant definition
generate_variant_def(variant, first, file) ==
    LET delimiter == IF first THEN "= " ELSE "| "
        named == write(start_line(file), delimiter \o variant.name)
    IN  CASE variant.variant_type.k = "Simple" -> named
          [] variant.variant_type.k = "Tuple" ->
                write(named,
                      " " \o Join([i \in 1..Len(variant.variant_type.elements) |->
                                     to_atom(generate_type_ident(
                                                 variant.variant_type.elements[i]))], " "))
          [] variant.variant_type.k = "Struct" ->
                generate_struct_fields(variant.variant_type.fields, named)
          [] variant.variant_type.k = "Newtype" ->
                write(named, " " \o to_atom(generate_type_ident(variant.variant_type.ty)))

RECURSIVE variants_loop(_, _, _)
variants_loop(variants, idx, file) ==
    IF idx > Len(variants) THEN file
    ELSE variants_loop(variants, idx + 1,
                       generate_variant_def(variants[idx], idx = 1, file))

\* Generate elm code for an enum definition
generate_enum_def(def, file) ==
    empty_lines(
        variants_loop(def.variants, 1,
            increase_indent(
                write(write_doc_comment(start_line(kill_indent(file)), def.doc_comment),
                      "type " \o def.name))),
        2)

---------------------------------------------------------------------------
(* What the generated Elm code does.  JSON values on the wire, Elm values, *)
(* and for every piece of text the generators emit the function that text  *)
(* denotes in Elm.  A JSON number is kept as its double (`halves`), so     *)
(* that 0.5 is a number too.                                               *)

WNull == [k |-> "null"]
WString(s) == [k |-> "string", v |-> s]
WNumber(h) == [k |-> "number", halves |-> h]
WBool(b) == [k |-> "bool", v |-> b]
WArray(ws) == [k |-> "array", v |-> ws]
WObject(pairs) == [k |-> "object", v |-> pairs]      \* pairs: <<key, value>>, in order

VUnit == [k |-> "()"]
VString(s) == [k |-> "String", v |-> s]
VInt(n) == [k |-> "Int", v |-> n]
VFloat(h) == [k |-> "Float", halves |-> h]
VBool(b) == [k |-> "Bool", v |-> b]
VPosix(ms) == [k |-> "Time.Posix", v |-> ms]
VDate(d) == [k |-> "Date.Date", v |-> d]
VList(vs) == [k |-> "List", v |-> vs]
VNothing == [k |-> "Nothing"]
VJust(v) == [k |-> "Just", v |-> v]
VDict(f) == [k |-> "Dict", v |-> f]                  \* f: key |-> value
VTuple(vs) == [k |-> "Tuple", v |-> vs]
VRecord(pairs) == [k |-> "Record", v |-> pairs]      \* pairs: <<field, value>>
VCtor(name, args) == [k |-> "Ctor", name |-> name, args |-> args]

Ok(v) == [ok |-> TRUE, v |-> v]
Err == [ok |-> FALSE]

HasKey(pairs, key) == \E i \in 1..Len(pairs) : pairs[i][1] = key
Lookup(pairs, key) == pairs[CHOOSE i \in 1..Len(pairs) : pairs[i][1] = key][2]

AllOk(results) == \A i \in 1..Len(results) : results[i].ok
Unwrap(results) == [i \in 1..Len(results) |-> results[i].v]

PosixPool == {0, 5}
DatePool == {1, 2}
DictKeys == <<"a", "b">>

\* Iso8601.encode of the first milliseconds of the epoch
Iso8601_encode(ms) == "1970-01-01T00:00:00.00" \o ToString(ms) \o "Z"
Iso8601_decoder(w) ==
    IF w.k = "string" /\ \E ms \in PosixPool : Iso8601_encode(ms) = w.v
    THEN Ok(VPosix(CHOOSE ms \in PosixPool : Iso8601_encode(ms) = w.v))
    ELSE Err

\* the runtime's date helpers
encDate(d) == "1970-01-0" \o ToString(d)
dateDecoder(w) ==
    IF w.k = "string" /\ \E d \in DatePool : encDate(d) = w.v
    THEN Ok(VDate(CHOOSE d \in DatePool : encDate(d) = w.v))
    ELSE Err

\* the function the text of generate_atom_decoder denotes
run_atom_decoder(atom, w) ==
    CASE atom = "Empty" -> Ok(VUnit)                                  \* (D.succeed ())
      [] atom = "Str" -> IF w.k = "string" THEN Ok(VString(w.v)) ELSE Err
      [] atom \in {"I32", "U32", "U8"} ->                             \* D.int
            IF w.k = "number" /\ w.halves % 2 = 0 THEN Ok(VInt(w.halves \div 2)) ELSE Err
      [] atom = "F64" -> IF w.k = "number" THEN Ok(VFloat(w.halves)) ELSE Err
      [] atom = "Bool" -> IF w.k = "bool" THEN Ok(VBool(w.v)) ELSE Err
      [] atom = "DateTime" -> Iso8601_decoder(w)
      [] atom = "Date" -> dateDecoder(w)

\* the function the text of generate_atom_encoder denotes
run_atom_encoder(atom, v) ==
    CASE atom = "Empty" -> WNull                                      \* (_ -> E.null)
      [] atom = "Str" -> WString(v.v)
      [] atom \in {"I32", "U32", "U8"} -> WNumber(2 * v.v)            \* E.int
      [] atom = "F64" -> WNumber(v.halves)
      [] atom = "Bool" -> WBool(v.v)
      [] atom = "DateTime" -> WString(Iso8601_encode(v.v))
      [] atom = "Date" -> WString(encDate(v.v))

\* D.maybe: the decoder's result in Just, Nothing when it fails
D_maybe(result) == IF result.ok THEN Ok(VJust(result.v)) ELSE Ok(VNothing)

\* the runtime's encMaybe: none is null, some is the value's encoding
encMaybe(v, encoded) == IF v.k = "Nothing" THEN WNull ELSE encoded

\* the runtime's unwrapDecoder: a decoded Nothing is a failure
unwrapDecoder(result) ==
    IF result.ok /\ result.v.k = "Just" THEN Ok(result.v.v) ELSE Err

ItemNamed(env, ident) == env[CHOOSE i \in 1..Len(env) : env[i].name = ident]

simple_variants(edef) == SelectSeq(edef.variants, LAMBDA v : v.variant_type.k = "Simple")
complex_variants(edef) == SelectSeq(edef.variants, LAMBDA v : v.variant_type.k # "Simple")

RECURSIVE run_type_decoder(_, _, _)

\* |> requiredIdx 0 d0 |> requiredIdx 1 d1 ..: the element at each index
run_components_by_index_pipeline(env, elements, w) ==
    IF w.k = "array" /\ Len(w.v) >= Len(elements)
    THEN [i \in 1..Len(elements) |-> run_type_decoder(env, elements[i], w.v[i])]
    ELSE <<Err>>

\* |> required "name" decoder, for every field in order
run_field_decoders(env, fields, w) ==
    IF w.k = "object" /\ \A i \in 1..Len(fields) : HasKey(w.v, fields[i].name)
    THEN [i \in 1..Len(fields) |->
             run_type_decoder(env, fields[i].type_ident, Lookup(w.v, fields[i].name))]
    ELSE <<Err>>

\* the record constructor of `type alias Name = { .. }`: one argument per
\* declared field, in the order of generate_struct_fields
record_constructor(fields, args) ==
    VRecord([i \in 1..Len(fields) |-> <<field_name(fields[i].name), args[i]>>])

\* D.succeed Name |> required .. : the record constructor on the fields
run_struct_decoder(env, sdef, w) ==
    LET results == run_field_decoders(env, sdef.fields, w)
    IN  IF AllOk(results) THEN Ok(record_constructor(sdef.fields, Unwrap(results))) ELSE Err

\* the decoder generate_variant_decoder emits: the variant's constructor
\* applied to what the pipeline decodes
run_variant_decoder(env, variant, w) ==
    CASE variant.variant_type.k = "Tuple" ->
            LET results == run_components_by_index_pipeline(
                               env, variant.variant_type.elements, w)
            IN  IF AllOk(results) THEN Ok(VCtor(variant.name, Unwrap(results))) ELSE Err
      [] variant.variant_type.k = "Struct" ->
            LET results == run_field_decoders(env, variant.variant_type.fields, w)
            IN  IF AllOk(results) THEN Ok(VCtor(variant.name, Unwrap(results))) ELSE Err
      [] variant.variant_type.k = "Newtype" ->
            LET result == run_type_decoder(env, variant.variant_type.ty, w)
            IN  IF result.ok THEN Ok(VCtor(variant.name, <<result.v>>)) ELSE Err

\* parseEnum<Name>FromString of generate_enum_helpers
run_enum_helper(edef, s) ==
    IF \E i \in 1..Len(simple_variants(edef)) : simple_variants(edef)[i].name = s
    THEN VJust(VCtor(s, <<>>))
    ELSE VNothing

\* D.oneOf [ unwrapDecoder (D.map parseEnum.. D.string), D.field "V" .. ]
run_enum_decoder(env, edef, w) ==
    LET by_string ==
            IF simple_variants(edef) # <<>>
            THEN <<unwrapDecoder(IF w.k = "string"
                                 THEN Ok(run_enum_helper(edef, w.v)) ELSE Err)>>
            ELSE <<>>
        by_field ==
            [i \in 1..Len(complex_variants(edef)) |->
                LET variant == complex_variants(edef)[i]
                IN  IF w.k = "object" /\ HasKey(w.v, variant.name)
                    THEN run_variant_decoder(env, variant, Lookup(w.v, variant.name))
                    ELSE Err]
        alternatives == by_string \o by_field
    IN  IF \E i \in 1..Len(alternatives) : alternatives[i].ok
        THEN alternatives[CHOOSE i \in 1..Len(alternatives) :
                 alternatives[i].ok /\ \A j \in 1..(i - 1) : ~alternatives[j].ok]
        ELSE Err

\* the function the text of generate_type_decoder denotes
run_type_decoder(env, type_ident, w) ==
    CASE type_ident.k = "BuiltIn" -> run_atom_decoder(type_ident.atom, w)
      [] type_ident.k = "List" ->                                     \* D.list
            IF w.k # "array" THEN Err
            ELSE LET results == [i \in 1..Len(w.v) |->
                                    run_type_decoder(env, type_ident.inner, w.v[i])]
                 IN  IF AllOk(results) THEN Ok(VList(Unwrap(results))) ELSE Err
      [] type_ident.k = "Option" ->                                   \* D.maybe
            D_maybe(run_type_decoder(env, type_ident.inner, w))
      [] type_ident.k = "Map" ->                                      \* D.dict
            IF w.k # "object" THEN Err
            ELSE LET results == [i \in 1..Len(w.v) |->
                                    run_type_decoder(env, type_ident.value, w.v[i][2])]
                 IN  IF AllOk(results)
                     THEN Ok(VDict([key \in {w.v[i][1] : i \in 1..Len(w.v)} |->
                                       run_type_decoder(env, type_ident.value,
                                                        Lookup(w.v, key)).v]))
                     ELSE Err
      [] type_ident.k = "Tuple" ->
            LET results == run_components_by_index_pipeline(env, type_ident.elements, w)
            IN  IF AllOk(results) THEN Ok(VTuple(Unwrap(results))) ELSE Err
      [] type_ident.k = "UserDefined" ->
            LET item == ItemNamed(env, type_ident.ident)
            IN  IF item.kind = "StructDef"
                THEN run_struct_decoder(env, item, w)
                ELSE run_enum_decoder(env, item, w)

RECURSIVE run_type_encoder(_, _, _)

\* [ ("name", encoder obj.fieldName), .. ]
run_field_encoders(env, fields, obj) ==
    [i \in 1..Len(fields) |->
        <<fields[i].name,
          run_type_encoder(env, fields[i].type_ident,
                           Lookup(obj.v, field_name(fields[i].name)))>>]

run_struct_encoder(env, sdef, obj) == WObject(run_field_encoders(env, sdef.fields, obj))

\* the branch generate_variant_encoder_branch emits for the variant
run_variant_encoder_branch(env, variant, v) ==
    CASE variant.variant_type.k = "Simple" -> WString(variant.name)
      [] variant.variant_type.k = "Tuple" ->
            WObject(<< <<variant.name,
                         WArray([i \in 1..Len(variant.variant_type.elements) |->
                                   run_type_encoder(env, variant.variant_type.elements[i],
                                                    v.args[i])])>> >>)
      [] variant.variant_type.k = "Struct" ->
            WObject(<< <<variant.name,
                         WObject(run_field_encoders(env, variant.variant_type.fields,
                                                    v.args[1]))>> >>)
      [] variant.variant_type.k = "Newtype" ->
            WObject(<< <<variant.name,
                         run_type_encoder(env, variant.variant_type.ty, v.args[1])>> >>)

\* case v of: the branch of v's constructor
run_enum_encoder(env, edef, v) ==
    run_variant_encoder_branch(
        env,
        edef.variants[CHOOSE i \in 1..Len(edef.variants) : edef.variants[i].name = v.name],
        v)

\* the function the text of generate_type_encoder denotes
run_type_encoder(env, type_ident, v) ==
    CASE type_ident.k = "BuiltIn" -> run_atom_encoder(type_ident.atom, v)
      [] type_ident.k = "List" ->                                     \* E.list
            WArray([i \in 1..Len(v.v) |-> run_type_encoder(env, type_ident.inner, v.v[i])])
      [] type_ident.k = "Option" ->
            encMaybe(v, IF v.k = "Just"
                        THEN run_type_encoder(env, type_ident.inner, v.v) ELSE WNull)
      [] type_ident.k = "Map" ->                                      \* E.dict identity
            LET keys == SelectSeq(DictKeys, LAMBDA key : key \in DOMAIN v.v)
            IN  WObject([i \in 1..Len(keys) |->
                            <<keys[i], run_type_encoder(env, type_ident.value, v.v[keys[i]])>>])
      [] type_ident.k = "Tuple" ->
            WArray([i \in 1..Len(type_ident.elements) |->
                      run_type_encoder(env, type_ident.elements[i], v.v[i])])
      [] type_ident.k = "UserDefined" ->
            LET item == ItemNamed(env, type_ident.ident)
            IN  IF item.kind = "StructDef"
                THEN run_struct_encoder(env, item, v)
                ELSE run_enum_encoder(env, item, v)

---------------------------------------------------------------------------
(* Which of the generated texts the Elm compiler takes.                    *)

\* ast::VariantDef and ast::VariantType
VariantDef(n, vt) == [name |-> n, doc_comment |-> <<>>, variant_type |-> vt]
Simple == [k |-> "Simple"]
TupleVariant(elements) == [k |-> "Tuple", elements |-> elements]
StructVariant(fields) == [k |-> "Struct", fields |-> fields]
Newtype(ty) == [k |-> "Newtype", ty |-> ty]

\* an Elm lambda starts with a backslash; "(_ -> E.null)" has none and is
\* no Elm expression
is_elm_expression(text) == text # "(_ -> E.null)"
is_lambda(text) == CharAt(text, 1) = "\\"

\* `{encoder} x{idx}` and `{enc} obj`: the encoder's text is put in front
\* of its argument as it is, which applies it only when it is no lambda
applies_bare(type_ident) == ~is_lambda(generate_type_encoder(type_ident))

RECURSIVE elm_accepts_encoder(_, _)

elm_accepts_field_encoders(env, fields) ==
    \A i \in 1..Len(fields) : elm_accepts_encoder(env, fields[i].type_ident)

elm_accepts_variant_encoder_branch(env, variant) ==
    CASE variant.variant_type.k = "Simple" -> TRUE
      [] variant.variant_type.k = "Tuple" ->
            \A i \in 1..Len(variant.variant_type.elements) :
                /\ elm_accepts_encoder(env, variant.variant_type.elements[i])
                /\ applies_bare(variant.variant_type.elements[i])
      [] variant.variant_type.k = "Struct" ->
            elm_accepts_field_encoders(env, variant.variant_type.fields)
      [] variant.variant_type.k = "Newtype" ->
            /\ elm_accepts_encoder(env, variant.variant_type.ty)
            /\ applies_bare(variant.variant_type.ty)

\* the encoder of the type, and of the items it names, compiles
elm_accepts_encoder(env, type_ident) ==
    CASE type_ident.k = "BuiltIn" ->
            is_elm_expression(generate_atom_encoder(type_ident.atom))
      [] type_ident.k \in {"List", "Option"} -> elm_accepts_encoder(env, type_ident.inner)
      [] type_ident.k = "Map" -> elm_accepts_encoder(env, type_ident.value)
      [] type_ident.k = "Tuple" ->
            \A i \in 1..Len(type_ident.elements) :
                /\ elm_accepts_encoder(env, type_ident.elements[i])
                /\ applies_bare(type_ident.elements[i])
      [] type_ident.k = "UserDefined" ->
            LET item == ItemNamed(env, type_ident.ident)
            IN  IF item.kind = "StructDef"
                THEN elm_accepts_field_encoders(env, item.fields)
                ELSE \A i \in 1..Len(item.variants) :
                         elm_accepts_variant_encoder_branch(env, item.variants[i])

RECURSIVE elm_accepts_decoder(_, _)

elm_accepts_field_decoders(env, fields) ==
    \A i \in 1..Len(fields) : elm_accepts_decoder(env, fields[i].type_ident)

\* generate_variant_def declares a Struct variant's constructor with one
\* argument, the record; `D.succeed Name |> required ..` hands it the
\* fields one at a time, which does not type-check
elm_accepts_variant_decoder(env, variant) ==
    CASE variant.variant_type.k = "Simple" -> TRUE
      [] variant.variant_type.k = "Tuple" ->
            \A i \in 1..Len(variant.variant_type.elements) :
                elm_accepts_decoder(env, variant.variant_type.elements[i])
      [] variant.variant_type.k = "Struct" -> FALSE
      [] variant.variant_type.k = "Newtype" ->
            elm_accepts_decoder(env, variant.variant_type.ty)

\* the decoder of the type, and of the items it names, compiles
elm_accepts_decoder(env, type_ident) ==
    CASE type_ident.k = "BuiltIn" -> TRUE
      [] type_ident.k \in {"List", "Option"} -> elm_accepts_decoder(env, type_ident.inner)
      [] type_ident.k = "Map" -> elm_accepts_decoder(env, type_ident.value)
      [] type_ident.k = "Tuple" ->
            \A i \in 1..Len(type_ident.elements) :
                elm_accepts_decoder(env, type_ident.elements[i])
      [] type_ident.k = "UserDefined" ->
            LET item == ItemNamed(env, type_ident.ident)
            IN  IF item.kind = "StructDef"
                THEN elm_accepts_field_decoders(env, item.fields)
                ELSE \A i \in 1..Len(item.variants) :
                         elm_accepts_variant_decoder(env, item.variants[i])

---------------------------------------------------------------------------
(* The types and values the codecs are run on.                             *)

MaxTypeDepth == 2
MaxStructFields == 3

\* the showcase's Color, the same enum without its Struct variant, and a
\* struct
Color ==
    EnumDef("Color",
        << VariantDef("Red", Simple), VariantDef("Blue", Simple),
           VariantDef("Green", Simple),
           VariantDef("Rgb", TupleVariant(<<Atom("U8"), Atom("U8"), Atom("U8")>>)),
           VariantDef("Named", Newtype(Atom("Str"))),
           VariantDef("Hsv", StructVariant(<<Field("h", Atom("U8")), Field("s", Atom("U8")),
                                             Field("v", Atom("U8"))>>)) >>)
Shade ==
    EnumDef("Shade",
        << VariantDef("Dark", Simple), VariantDef("Light", Simple),
           VariantDef("Grey", TupleVariant(<<Atom("U8"), Atom("Bool")>>)),
           VariantDef("Named", Newtype(Atom("Str"))) >>)
Customer ==
    StructDef("Customer",
        << Field("name", Atom("Str")), Field("id", Atom("I32")),
           Field("net_worth", Option(Atom("F64"))), Field("favorite_shade", UserDefined("Shade")) >>)

CodecEnv == <<Color, Shade, Customer>>

Leaves == {Atom(a) : a \in AtomTypes} \cup {UserDefined(CodecEnv[i].name) : i \in 1..Len(CodecEnv)}
Wrap(T) ==
    {List(t) : t \in T} \cup {Option(t) : t \in T}
        \cup {Map(Atom("Str"), t) : t \in T} \cup {Map(t, Atom("Str")) : t \in T}
        \cup {Tuple(<<t, Atom("Bool")>>) : t \in T} \cup {Result(t, Atom("Str")) : t \in T}

RECURSIVE Types(_)
Types(depth) == IF depth = 0 THEN Leaves ELSE Types(depth - 1) \cup Wrap(Types(depth - 1))

RECURSIVE Values(_, _)

\* the tuples of values that differ from the first choice in one place at most
Products(env, types) ==
    LET base == [i \in 1..Len(types) |-> CHOOSE v \in Values(env, types[i]) : TRUE]
    IN  {base} \cup UNION {{[base EXCEPT ![i] = v] : v \in Values(env, types[i])} :
                             i \in 1..Len(types)}

FieldTypes(fields) == [i \in 1..Len(fields) |-> fields[i].type_ident]

Records(env, fields) ==
    {record_constructor(fields, args) : args \in Products(env, FieldTypes(fields))}

VariantValues(env, variant) ==
    CASE variant.variant_type.k = "Simple" -> {VCtor(variant.name, <<>>)}
      [] variant.variant_type.k = "Tuple" ->
            {VCtor(variant.name, args) : args \in Products(env, variant.variant_type.elements)}
      [] variant.variant_type.k = "Struct" ->
            {VCtor(variant.name, <<r>>) : r \in Records(env, variant.variant_type.fields)}
      [] variant.variant_type.k = "Newtype" ->
            {VCtor(variant.name, <<v>>) : v \in Values(env, variant.variant_type.ty)}

\* representative values of the Elm type generate_type_ident gives
Values(env, type_ident) ==
    CASE type_ident.k = "BuiltIn" ->
            ( CASE type_ident.atom = "Empty" -> {VUnit}
                [] type_ident.atom \in {"Str", "Uuid", "Bytes"} -> {VString(""), VString("Red")}
                [] type_ident.atom = "I32" -> {VInt(-3), VInt(7)}
                [] type_ident.atom \in {"U32", "U8"} -> {VInt(0), VInt(7)}
                [] type_ident.atom = "F64" -> {VFloat(1), VFloat(4)}
                [] type_ident.atom = "Bool" -> {VBool(TRUE), VBool(FALSE)}
                [] type_ident.atom = "DateTime" -> {VPosix(ms) : ms \in PosixPool}
                [] type_ident.atom = "Date" -> {VDate(d) : d \in DatePool} )
      [] type_ident.k = "List" ->
            LET inner == Values(env, type_ident.inner)
                a == CHOOSE v \in inner : TRUE
                b == CHOOSE v \in inner : \A u \in inner : u = a \/ v # a
            IN  {VList(<<>>), VList(<<a, b, a>>)} \cup {VList(<<v>>) : v \in inner}
      [] type_ident.k = "Option" ->
            {VNothing} \cup {VJust(v) : v \in Values(env, type_ident.inner)}
      [] type_ident.k = "Map" ->
            LET inner == Values(env, type_ident.value)
                a == CHOOSE v \in inner : TRUE
                b == CHOOSE v \in inner : \A u \in inner : u = a \/ v # a
            IN  {VDict(<<>>), VDict([key \in {"a", "b"} |-> IF key = "a" THEN a ELSE b])}
                    \cup {VDict([key \in {"b"} |-> v]) : v \in inner}
      [] type_ident.k = "Tuple" ->
            {VTuple(vs) : vs \in Products(env, type_ident.elements)}
      [] type_ident.k = "Result" -> {}
      [] type_ident.k = "UserDefined" ->
            LET item == ItemNamed(env, type_ident.ident)
            IN  IF item.kind = "StructDef"
                THEN Records(env, item.fields)
                ELSE UNION {VariantValues(env, item.variants[i]) : i \in 1..Len(item.variants)}

\* structs over fields whose names need, and need no, case conversion
FieldPool ==
    { Field("id", Atom("I32")), Field("net_worth", Option(Atom("F64"))),
      Field("is_vip", Atom("Bool")), Field("fullName", Atom("Str")) }

CodecStructs == {StructDef("Customer", fs) : fs \in SeqsUpTo(FieldPool, MaxStructFields)}

---------------------------------------------------------------------------
(* The codec generators run on one type, or on one struct, and the         *)
(* generated codecs run on one value.                                      *)

InitCodec ==
    /\ spec = <<>>
    /\ input = <<>>
    /\ pc = "idle"
    /\ changed = FALSE
    /\ one_level_changed = FALSE
    /\ replacements = EmptyMap
    /\ iter = 0
    /\ calls = 0
    /\ gen = [pc |-> "idle"]
    /\ codec \in {[pc |-> "type", type_ident |-> t] : t \in Types(MaxTypeDepth)}
                    \cup {[pc |-> "struct", sdef |-> s] : s \in CodecStructs}

\* generate_type_decoder and generate_type_encoder on the type
GenerateTypeCodec ==
    /\ codec.pc = "type"
    /\ codec' = [pc |-> "generated", type_ident |-> codec.type_ident,
                 decoder |-> generate_type_decoder(codec.type_ident),
                 encoder |-> generate_type_encoder(codec.type_ident)]
    /\ UNCHANGED <<resolver_vars, gen>>

\* the generated module goes through the Elm compiler
ElmCompile ==
    /\ codec.pc = "generated"
    /\ ~IsPanic(codec.decoder) /\ ~IsPanic(codec.encoder)
    /\ codec' = [codec EXCEPT !.pc =
                    IF /\ elm_accepts_decoder(CodecEnv, codec.type_ident)
                       /\ elm_accepts_encoder(CodecEnv, codec.type_ident)
                    THEN "compiled" ELSE "elm_rejected"]
    /\ UNCHANGED <<resolver_vars, gen>>

\* the generated encoder on a value of the type
Encode ==
    /\ codec.pc = "compiled"
    /\ \E v \in Values(CodecEnv, codec.type_ident) :
          codec' = [pc |-> "encoded", type_ident |-> codec.type_ident,
                    decoder |-> codec.decoder, encoder |-> codec.encoder,
                    value |-> v,
                    wire |-> run_type_encoder(CodecEnv, codec.type_ident, v)]
    /\ UNCHANGED <<resolver_vars, gen>>

\* the generated decoder on what the encoder produced
Decode ==
    /\ codec.pc = "encoded"
    /\ codec' = [pc |-> "decoded", type_ident |-> codec.type_ident,
                 decoder |-> codec.decoder, encoder |-> codec.encoder,
                 value |-> codec.value, wire |-> codec.wire,
                 decoded |-> run_type_decoder(CodecEnv, codec.type_ident, codec.wire)]
    /\ UNCHANGED <<resolver_vars, gen>>

\* generate_struct_def, generate_struct_decoder and generate_struct_encoder
\* on the struct
GenerateStructCodec ==
    /\ codec.pc = "struct"
    /\ codec' = [pc |-> "struct_generated", sdef |-> codec.sdef,
                 declaration |-> generate_struct_def(codec.sdef, NewIndentWriter).lines,
                 decoder |-> generate_struct_decoder(codec.sdef),
                 encoder |-> generate_struct_encoder(codec.sdef)]
    /\ UNCHANGED <<resolver_vars, gen>>

NextCodec == GenerateTypeCodec \/ ElmCompile \/ Encode \/ Decode \/ GenerateStructCodec

SpecCodec == InitCodec /\ [][NextCodec]_vars

---------------------------------------------------------------------------
(* Claims about the codec generators                                       *)

\* the types the codec generators have no code for
RECURSIVE Unsupported(_)
Unsupported(t) ==
    CASE t.k = "BuiltIn" -> t.atom \in {"Uuid", "Bytes"}
      [] t.k \in {"List", "Option"} -> Unsupported(t.inner)
      [] t.k = "Result" -> TRUE
      [] t.k = "Map" -> t.key # Atom("Str") \/ Unsupported(t.value)
      [] t.k = "Tuple" -> \E i \in 1..Len(t.elements) : Unsupported(t.elements[i])
      [] t.k = "UserDefined" -> FALSE

RECURSIVE HasNestedOption(_)
HasNestedOption(t) ==
    CASE t.k = "BuiltIn" -> FALSE
      [] t.k = "List" -> HasNestedOption(t.inner)
      [] t.k = "Option" -> t.inner.k = "Option" \/ HasNestedOption(t.inner)
      [] t.k = "Result" -> FALSE
      [] t.k = "Map" -> HasNestedOption(t.value)
      [] t.k = "Tuple" -> \E i \in 1..Len(t.elements) : HasNestedOption(t.elements[i])
      [] t.k = "UserDefined" -> FALSE

\* C7: for every value v of a supported type shape, the generated decoder
\* run on what the generated encoder produces for v gives back v; in
\* particular the generated codecs of a supported type are Elm code that
\* can be run.
C7_RoundTrip ==
    /\ codec.pc # "elm_rejected"
    /\ codec.pc = "decoded" => codec.decoded = Ok(codec.value)

\* the round trip of the types whose codecs compile and that hold no
\* Option directly in an Option
RoundTripElsewhere ==
    (codec.pc = "decoded" /\ ~HasNestedOption(codec.type_ident))
        => codec.decoded = Ok(codec.value)

\* the round trip of every type whose codecs compile
RoundTripOfCompiled == codec.pc = "decoded" => codec.decoded = Ok(codec.value)

\* C9: decoder generation and encoder generation abort on exactly the same
\* types: those that hold, at any depth, a Result, the Uuid atom, the Bytes
\* atom or a Map whose key is not the Str atom; for every other type both
\* produce code.
C9_SameAbortSet ==
    codec.pc = "generated" =>
        /\ IsPanic(codec.decoder) <=> Unsupported(codec.type_ident)
        /\ IsPanic(codec.encoder) <=> Unsupported(codec.type_ident)

C9_Witness ==
    /\ codec.pc = "generated"
    /\ codec.type_ident = List(Map(Atom("Bool"), Atom("Str")))
    /\ IsPanic(codec.decoder)
    /\ IsPanic(codec.encoder)

\* first position at or after `from` where pat stands in s, 0 when nowhere
FindFrom(s, pat, from) ==
    LET hits == {i \in from..(Len(s) - Len(pat) + 1) : SubSeq(s, i, i + Len(pat) - 1) = pat}
    IN  IF hits = {} THEN 0 ELSE CHOOSE i \in hits : \A j \in hits : i <= j

\* the texts that stand between an `open` and the next `close`, in order
RECURSIVE Captures(_, _, _, _)
Captures(s, open, close, from) ==
    LET i == FindFrom(s, open, from)
        start == i + Len(open)
        j == FindFrom(s, close, start)
    IN  IF i = 0 \/ j = 0 THEN <<>>
        ELSE <<SubSeq(s, start, j - 1)>> \o Captures(s, open, close, j + Len(close))

IsFieldLine(l) == Len(l) >= 6 /\ SubSeq(l, 1, 6) \in {"    { ", "    , "}

\* the field names of a type declaration: one line per field, "{ name: type"
\* for the first and ", name: type" for the others
DeclaredFields(lines) ==
    LET field_lines == SelectSeq(lines, IsFieldLine)
    IN  [i \in 1..Len(field_lines) |->
            SubSeq(field_lines[i], 7, FindFrom(field_lines[i], ":", 7) - 1)]

FirstFieldOpens(lines) ==
    LET field_lines == SelectSeq(lines, IsFieldLine)
    IN  \A i \in 1..Len(field_lines) : (SubSeq(field_lines[i], 1, 6) = "    { ") <=> (i = 1)

DecoderKeys(text) == Captures(text, "|> required \"", "\"", 1)
EncoderKeys(text) == Captures(text, "(\"", "\"", 1)
EncoderAccessors(text) == Captures(text, " obj.", ")", 1)

\* the camelCase form of the names of FieldPool
CamelCaseOf(name) ==
    CASE name = "id" -> "id"
      [] name = "net_worth" -> "netWorth"
      [] name = "is_vip" -> "isVip"
      [] name = "fullName" -> "fullName"

\* C8: for every struct, the fields stand in the same order in the field
\* list, in the generated type declaration, in the decoder's pipeline and
\* in the encoder's object; decoder and encoder use the declared name as
\* the wire key, the declaration and the encoder's accessor its camelCase
\* form.
C8_FieldOrder ==
    codec.pc = "struct_generated" =>
        LET fields == codec.sdef.fields
            declared == [i \in 1..Len(fields) |-> fields[i].name]
            camel == [i \in 1..Len(fields) |-> CamelCaseOf(fields[i].name)]
        IN  /\ DeclaredFields(codec.declaration) = camel
            /\ FirstFieldOpens(codec.declaration)
            /\ DecoderKeys(codec.decoder) = declared
            /\ EncoderKeys(codec.encoder) = declared
            /\ EncoderAccessors(codec.encoder) = camel

C8_Witness ==
    /\ codec.pc = "struct_generated"
    /\ [i \in 1..Len(codec.sdef.fields) |-> codec.sdef.fields[i].name]
           = <<"net_worth", "id", "is_vip">>
    /\ DecoderKeys(codec.decoder) = <<"net_worth", "id", "is_vip">>
    /\ EncoderAccessors(codec.encoder) = <<"netWorth", "id", "isVip">>

---------------------------------------------------------------------------
(* Generator: new, validate_output_dir, generate_user_defined_types and    *)
(* generate, on an output path of the file system.                         *)

Artifacts == {"TypesOnly", "ClientEndpoints", "ServerEndpoints"}

\* what stands at the output path: nothing, a file, or a directory with
\* its entries, which read_dir may fail to list and File::create may fail
\* to write into
OutDirs ==
    {[kind |-> k, entries |-> {}, readable |-> FALSE, writable |-> FALSE] :
         k \in {"missing", "file"}}
      \cup {[kind |-> "dir", entries |-> e, readable |-> r, writable |-> w] :
               e \in SUBSET {"Data.elm", "README.md"}, r \in BOOLEAN, w \in BOOLEAN}

Documented ==
    [StructDef("Point", <<Field("x_pos", Atom("F64")), Field("y_pos", Atom("F64"))>>)
         EXCEPT !.doc_comment = <<"A point.">>]

MaxItems == 2

\* every sequence of up to MaxItems items, and one with a service between
GenSpecs ==
    SeqsUpTo({Customer, Color, Shade, Documented, ServiceDef("Api")}, MaxItems)
        \cup { <<Documented, ServiceDef("Api"), Color>> }

NoFile == <<>>

InitGen ==
    /\ spec = <<>>
    /\ input = <<>>
    /\ pc = "idle"
    /\ changed = FALSE
    /\ one_level_changed = FALSE
    /\ replacements = EmptyMap
    /\ iter = 0
    /\ calls = 0
    /\ codec = [pc |-> "idle"]
    /\ \E a \in Artifacts, d \in OutDirs, s \in GenSpecs :
          gen = [pc |-> "new", artifact |-> a, outdir |-> d, before |-> d,
                 spec |-> s, file |-> NoFile, idx |-> 0]

\* Generator::new
New ==
    /\ gen.pc = "new"
    /\ gen' = [gen EXCEPT !.pc = IF gen.artifact \in {"TypesOnly", "ClientEndpoints"}
                                 THEN "validate_output_dir"
                                 ELSE "Err_UnsupportedArtifact"]
    /\ UNCHANGED <<resolver_vars, codec>>

\* mutant: the directory is not looked into
validate_output_dir_unlisted(outdir) ==
    IF outdir.kind # "dir" THEN "Err_OutputMustBeFolder"
    ELSE "Ok"

\* validate_output_dir
validate_output_dir(outdir) ==
    IF outdir.kind # "dir" THEN "Err_OutputMustBeFolder"
    ELSE IF ~outdir.readable THEN "Err_IoError"
    ELSE IF outdir.entries # {} THEN "Err_OutputFolderNotEmpty"
    ELSE "Ok"

\* generate, up to `Self::validate_output_dir(&output)?`
ValidateOutputDir ==
    /\ gen.pc = "validate_output_dir"
    /\ gen' = [gen EXCEPT !.pc = IF validate_output_dir(gen.outdir) = "Ok"
                                 THEN "for_file"
                                 ELSE validate_output_dir(gen.outdir)]
    /\ UNCHANGED <<resolver_vars, codec>>

\* IndentWriter::for_file(outdir, "Data.elm"): File::create
ForFile ==
    /\ gen.pc = "for_file"
    /\ gen' = IF gen.outdir.kind = "dir" /\ gen.outdir.writable
              THEN [gen EXCEPT !.pc = "header",
                               !.outdir.entries = @ \cup {"Data.elm"},
                               !.file = NewIndentWriter]
              ELSE [gen EXCEPT !.pc = "Err_IoError"]
    /\ UNCHANGED <<resolver_vars, codec>>

\* the module header line and two line ends
WriteHeader ==
    /\ gen.pc = "header"
    /\ gen' = [gen EXCEPT !.pc = "items",
                          !.idx = 1,
                          !.file = empty_lines(write(@, "module Api.Data exposing (..)"), 2)]
    /\ UNCHANGED <<resolver_vars, codec>>

\* one turn of `for spec_item in spec.iter()`
WriteItem ==
    /\ gen.pc = "items"
    /\ gen.idx <= Len(gen.spec)
    /\ LET spec_item == gen.spec[gen.idx]
       IN  gen' = [gen EXCEPT !.idx = @ + 1,
                              !.file = CASE spec_item.kind = "StructDef" ->
                                                generate_struct_def(spec_item, @)
                                         [] spec_item.kind = "EnumDef" ->
                                                generate_enum_def(spec_item, @)
                                         [] spec_item.kind = "ServiceDef" -> @]
    /\ UNCHANGED <<resolver_vars, codec>>

\* the loop is over: generate_user_defined_types and generate return Ok(())
Return ==
    /\ gen.pc = "items"
    /\ gen.idx > Len(gen.spec)
    /\ gen' = [gen EXCEPT !.pc = "Ok"]
    /\ UNCHANGED <<resolver_vars, codec>>

NextGen == New \/ ValidateOutputDir \/ ForFile \/ WriteHeader \/ WriteItem \/ Return

SpecGen == InitGen /\ [][NextGen]_vars

---------------------------------------------------------------------------
(* Claims about the generator                                              *)

GenErrors ==
    {"Err_UnsupportedArtifact", "Err_OutputMustBeFolder", "Err_IoError",
     "Err_OutputFolderNotEmpty"}

\* the output path is missing, is no directory, or is a directory with entries
BadOutputPath == gen.before.kind # "dir" \/ gen.before.entries # {}

\* C10: generate on an output path that is missing, is not a directory or
\* is a non-empty directory returns an error and creates no file; a file
\* is created only once validate_output_dir has returned Ok, and when the
\* check fails what stands at the path is unchanged.
C10_OutputDirGuard ==
    /\ BadOutputPath =>
          /\ gen.pc \in {"new", "validate_output_dir"} \cup GenErrors
          /\ gen.file = NoFile
          /\ gen.outdir = gen.before
    /\ gen.file # NoFile =>
          /\ validate_output_dir(gen.before) = "Ok"
          /\ gen.pc \in {"header", "items", "Ok"}
    /\ gen.pc \in GenErrors => gen.outdir = gen.before

C10_Witness ==
    /\ gen.pc = "Err_OutputFolderNotEmpty"
    /\ gen.before.entries = {"README.md"}
    /\ gen.outdir = gen.before
    /\ gen.file = NoFile

\* the structs and enums of a Spec, in order
CodecItems(s) == SelectSeq(s, LAMBDA item : item.kind \in {"StructDef", "EnumDef"})

\* some line of the written file holds the text
Written(text) ==
    /\ gen.file # NoFile
    /\ \E i \in 1..Len(gen.file.lines) : FindFrom(gen.file.lines[i], text, 1) # 0

\* C11: a generator constructed for the client-endpoints artifact writes,
\* besides the type declarations, a decode function and an encode function
\* for every struct and every enum of the Spec.
C11_ClientCodecs ==
    (gen.pc = "Ok" /\ gen.artifact = "ClientEndpoints") =>
        \A i \in 1..Len(CodecItems(gen.spec)) :
            /\ Written(decoder_name(CodecItems(gen.spec)[i].name) \o " : D.Decoder ")
            /\ Written(encoder_name(CodecItems(gen.spec)[i].name) \o " : ")

\* the run C11 is about: client endpoints, a Spec with a struct, generate
\* returned Ok and the struct's type is in the file
C11_Reached ==
    /\ gen.pc = "Ok"
    /\ gen.artifact = "ClientEndpoints"
    /\ gen.spec = <<Customer>>
    /\ Written("type alias Customer =")

---------------------------------------------------------------------------
(* Claims about the passes of resolve_embeds                               *)

\* a pass is under way
InPass == pc \in {"collect", "apply"}

\* C12 as stated: resolve_embeds runs at most 10 passes; it returns as soon
\* as a pass made no substitution and it aborts with the maximum-embed-depth
\* error when the 10th pass still made one; there is no 11th pass.
C12_AtMostTenPasses ==
    /\ iter <= MAX_EMBED_DEPTH
    /\ (InPass => changed)
    /\ (pc = "returned" => ~changed)
    /\ (pc = "panic_max_depth" => changed /\ iter = MAX_EMBED_DEPTH)

\* C12, with the number of passes the loop's range 0..=MAX_EMBED_DEPTH has:
\* resolve_embeds runs at most MAX_EMBED_DEPTH + 1 = 11 passes; a pass is
\* started only when the pass before it made a substitution, it returns
\* only after a pass that made none, and it aborts with the
\* maximum-embed-depth error exactly when the 11th pass still made one;
\* there is no 12th pass.
C12_AtMostElevenPasses ==
    /\ iter <= MAX_EMBED_DEPTH + 1
    /\ (InPass => changed)
    /\ (pc = "after_loop" => ~changed \/ iter = MAX_EMBED_DEPTH + 1)
    /\ (pc = "returned" => ~changed)
    /\ (pc = "panic_max_depth" => changed /\ iter = MAX_EMBED_DEPTH + 1)

\* the 11th pass made a substitution and the run ended in the depth panic
C12_Witness ==
    /\ pc = "panic_max_depth"
    /\ iter = MAX_EMBED_DEPTH + 1
    /\ changed
    /\ calls = 1

\* the struct a marker's name is looked up to
TargetOf(s, name) == MaxOf({m \in StructItems(s) : s[m].name = name})

\* embed-nesting depth of struct i: 0 without a marker, else one more than
\* the deepest struct its markers name
RECURSIVE NestingDepth(_, _, _)
NestingDepth(s, i, fuel) ==
    LET targets == {TargetOf(s, s[i].fields[f].name) :
                       f \in {g \in 1..Len(s[i].fields) : is_embed(s[i].fields[g])}}
    IN  IF targets = {} \/ fuel = 0 THEN 0
        ELSE 1 + MaxOf({NestingDepth(s, m, fuel - 1) : m \in targets})

Depth(s, i) == NestingDepth(s, i, Len(s))

Resolvable(s) == ~HasCycle(s) /\ EveryEmbedNamesAStruct(s)

\* C13: a pass expands exactly one embed-nesting level: every struct of
\* nesting depth d >= 1 before the pass has depth d - 1 after it, so that
\* resolve_embeds returns on an acyclic chain of depth d after d
\* substituting passes and the one pass that finds no marker.
C13_OneLevelPerPass ==
    /\ []((IsChain(input) /\ pc = "returned" /\ calls = 1)
              => iter = ChainDepth(input) + 1)
    /\ [][(pc = "apply" /\ Resolvable(spec)) =>
              \A i \in StructItems(spec) :
                  Depth(spec, i) >= 1 => Depth(spec', i) = Depth(spec, i) - 1]_vars

\* a pass has been applied to a chain three levels deep
C13_Reached ==
    /\ input = Chain(3)
    /\ pc = "loop" /\ iter = 1 /\ calls = 1
    /\ Depth(input, 1) = 3
    /\ Depth(spec, 1) = 1

---------------------------------------------------------------------------
(* Claims about the emitted declarations                                   *)

\* the lines that open a declaration, and those that open its doc comment
OpensDeclaration(l) == FindFrom(l, "type ", 1) # 0
OpensDocComment(l) == FindFrom(l, "{-| ", 1) # 0

\* the structs and enums written so far
ItemsWritten ==
    IF gen.pc \in {"items", "Ok"}
    THEN CodecItems(SubSeq(gen.spec, 1, gen.idx - 1))
    ELSE <<>>

\* C14: whatever structs and enums were emitted before through the same
\* IndentWriter, and whatever indentation they left, the first line of
\* every top-level declaration (its doc comment, when it has one) is
\* written at indentation zero, and the indentation counter is never
\* decreased while it is zero.
C14_DeclarationsAtIndentZero ==
    gen.file # NoFile =>
        LET lines == gen.file.lines
            opening == SelectSeq(lines, OpensDeclaration)
        IN  /\ ~gen.file.underflow
            /\ \A i \in 1..Len(lines) :
                  /\ OpensDeclaration(lines[i]) => SubSeq(lines[i], 1, 5) = "type "
                  /\ OpensDocComment(lines[i]) => SubSeq(lines[i], 1, 4) = "{-| "
            /\ Len(opening) = Len(ItemsWritten)
            /\ \A i \in 1..Len(opening) :
                  opening[i] = IF ItemsWritten[i].kind = "StructDef"
                               THEN "type alias " \o ItemsWritten[i].name \o " ="
                               ELSE "type " \o ItemsWritten[i].name

\* a struct was declared after an enum with a Struct variant had left the
\* indentation at one
C14_Witness ==
    /\ gen.pc = "Ok"
    /\ gen.spec = <<Color, Customer>>
    /\ \E i \in 1..Len(gen.file.lines) : gen.file.lines[i] = "        { h: Int"
    /\ \E i \in 1..Len(gen.file.lines) : gen.file.lines[i] = "type alias Customer ="
    /\ generate_enum_def(Color, NewIndentWriter).indent = 1

---------------------------------------------------------------------------
(* Claims about what a pass leaves alone                                   *)

\* t is s but for the field lists of the structs that hold an embed marker
SameButExpandedFields(s, t) ==
    /\ Len(t) = Len(s)
    /\ \A i \in 1..Len(s) :
          /\ t[i].kind = s[i].kind
          /\ t[i].name = s[i].name
          /\ [t[i] EXCEPT !.fields = s[i].fields] = s[i]
          /\ (s[i].kind # "StructDef" \/ EmbedCount(s[i].fields) = 0) => t[i] = s[i]

\* C15 as stated: a pass changes nothing but the field lists of the structs
\* that hold an embed marker; number, order, kind and names of the items,
\* every enum and service, and the field list of every struct without a
\* marker stay as they were, for every Spec, with or without two structs of
\* the same name.
C15_PassFrame ==
    [][InPass => SameButExpandedFields(spec, spec')]_vars

\* C15 for the Specs whose struct names are unique
C15_PassFrameUniqueNames ==
    [][(InPass /\ UniqueStructNames(spec)) => SameButExpandedFields(spec, spec')]_vars

\* a pass has expanded struct Monster between an enum of the same name, a
\* service and a struct without a marker
C15_Witness ==
    /\ input = Monster
    /\ pc = "loop" /\ iter = 1 /\ calls = 1
    /\ spec # input
    /\ spec[2].fields = <<PlainField("id"), PlainField("name"), PlainField("hp")>>
    /\ SameButExpandedFields(input, spec)

---------------------------------------------------------------------------
(* The codec generators run on one enum variant.                           *)

PanicUnreachable == "!unreachable"

\* Generate elm code for decoder for an enum variant
generate_variant_decoder(variant) ==
    CASE variant.variant_type.k = "Simple" -> PanicUnreachable
      [] variant.variant_type.k = "Tuple" ->
            LET components ==
                    generate_components_by_index_pipeline(variant.variant_type.elements)
            IN  IF IsPanic(components) THEN components
                ELSE "D.succeed " \o variant.name \o " " \o components
      [] variant.variant_type.k = "Struct" ->
            LET field_decoders ==
                    [i \in 1..Len(variant.variant_type.fields) |->
                        generate_field_decoder(variant.variant_type.fields[i])]
            IN  IF AnyPanic(field_decoders) THEN FirstPanic(field_decoders)
                ELSE "D.succeed " \o variant.name \o " " \o Join(field_decoders, " ")
      [] variant.variant_type.k = "Newtype" ->
            LET ty == generate_type_decoder(variant.variant_type.ty)
            IN  IF IsPanic(ty) THEN ty
                ELSE "D.map " \o variant.name \o " " \o to_atom(ty)

\* Generate elm code for encoding code for variant of enum
generate_variant_encoder_branch(variant) ==
    CASE variant.variant_type.k = "Simple" ->
            variant.name \o " -> E.string \"" \o variant.name \o "\""
      [] variant.variant_type.k = "Tuple" ->
            LET elements == variant.variant_type.elements
                encoders == [i \in 1..Len(elements) |-> generate_type_encoder(elements[i])]
            IN  IF AnyPanic(encoders) THEN FirstPanic(encoders)
                ELSE variant.name \o " " \o Join(xs(Len(elements)), " ")
                         \o " -> E.object [ (\"" \o variant.name \o "\", E.list identity ["
                         \o Join([i \in 1..Len(elements) |->
                                    encoders[i] \o " x" \o ToString(i - 1)], ", ")
                         \o "]) ]"
      [] variant.variant_type.k = "Struct" ->
            LET fields == [i \in 1..Len(variant.variant_type.fields) |->
                              generate_field_encoder(variant.variant_type.fields[i])]
            IN  IF AnyPanic(fields) THEN FirstPanic(fields)
                ELSE variant.name \o " obj -> E.object [ (\"" \o variant.name
                         \o "\", E.object [" \o Join(fields, ", ") \o "]) ]"
      [] variant.variant_type.k = "Newtype" ->
            LET enc == generate_type_encoder(variant.variant_type.ty)
            IN  IF IsPanic(enc) THEN enc
                ELSE variant.name \o " obj -> E.object [ (\"" \o variant.name \o "\", "
                         \o enc \o " obj) ]"

\* variants of every shape: components and fields in every order
ComponentTypes == {Atom("U8"), List(Atom("Str")), Option(Atom("Bool"))}

CodecVariants ==
    {VariantDef("Plain", Simple)}
        \cup {VariantDef("Rgb", TupleVariant(es)) :
                 es \in SeqsUpTo(ComponentTypes, MaxStructFields) \ {<<>>}}
        \cup {VariantDef("Hsv", StructVariant(fs)) :
                 fs \in SeqsUpTo(FieldPool, MaxStructFields) \ {<<>>}}
        \cup {VariantDef("Named", Newtype(ty)) : ty \in ComponentTypes}

InitVariant ==
    /\ spec = <<>>
    /\ input = <<>>
    /\ pc = "idle"
    /\ changed = FALSE
    /\ one_level_changed = FALSE
    /\ replacements = EmptyMap
    /\ iter = 0
    /\ calls = 0
    /\ gen = [pc |-> "idle"]
    /\ codec \in {[pc |-> "variant", variant |-> v, first |-> f] :
                     v \in CodecVariants, f \in BOOLEAN}

\* generate_variant_def inside generate_enum_def, and for a variant that is
\* not Simple generate_variant_decoder inside generate_enum_decoder
GenerateVariantDecoder ==
    /\ codec.pc = "variant"
    /\ codec' = [pc |-> "variant_decoder", variant |-> codec.variant, first |-> codec.first,
                 declaration |->
                     generate_variant_def(codec.variant, codec.first,
                                          increase_indent(NewIndentWriter)).lines,
                 decoder |-> IF codec.variant.variant_type.k = "Simple" THEN ""
                             ELSE generate_variant_decoder(codec.variant)]
    /\ UNCHANGED <<resolver_vars, gen>>

\* generate_variant_encoder_branch inside generate_enum_encoder
GenerateVariantEncoder ==
    /\ codec.pc = "variant_decoder"
    /\ codec' = [pc |-> "variant_generated", variant |-> codec.variant,
                 first |-> codec.first,
                 declaration |-> codec.declaration, decoder |-> codec.decoder,
                 encoder |-> generate_variant_encoder_branch(codec.variant)]
    /\ UNCHANGED <<resolver_vars, gen>>

NextVariant == GenerateVariantDecoder \/ GenerateVariantEncoder

SpecVariant == InitVariant /\ [][NextVariant]_vars

---------------------------------------------------------------------------
(* Claims about the arity of variant constructors                          *)

\* how many brackets are open after the first i characters of s
DepthAt(s, i) ==
    Cardinality({j \in 1..i : CharAt(s, j) \in {"(", "["}})
        - Cardinality({j \in 1..i : CharAt(s, j) \in {")", "]"}})

\* number of blank-separated words of s, a bracketed part being one word
\* or a part of one
Words(s) ==
    Cardinality({i \in 1..Len(s) :
                    /\ CharAt(s, i) # " "
                    /\ i = 1 \/ (CharAt(s, i - 1) = " " /\ DepthAt(s, i - 1) = 0)})

\* number of places outside brackets where pat stands in s
Occurrences(s, pat) ==
    Cardinality({i \in 1..(Len(s) - Len(pat) + 1) :
                    SubSeq(s, i, i + Len(pat) - 1) = pat /\ DepthAt(s, i) = 0})

\* arguments the declaration gives the constructor: the types that follow
\* its name on its line, and the record block under it
DeclaredArity(lines) ==
    LET head == lines[2]
        block == {i \in 3..Len(lines) : lines[i] = "        }"}
    IN  Words(SubSeq(head, 5, Len(head))) - 2 + Cardinality(block)

\* arguments the decoder applies the constructor to: one per pipeline step
\* after `D.succeed Name`, one for `D.map Name decoder`
DecoderArity(text) ==
    IF SubSeq(text, 1, 6) = "D.map " THEN 1
    ELSE Occurrences(text, "|> ")

\* names the encoder's pattern binds after the constructor
EncoderArity(text) ==
    Words(SubSeq(text, 1, FindFrom(text, " -> ", 1) - 1)) - 1

ExpectedArity(variant) ==
    IF variant.variant_type.k = "Tuple" THEN Len(variant.variant_type.elements) ELSE 1

\* C16: for every variant that is not Simple the generated decoder applies
\* the constructor to as many arguments as the generated declaration gives
\* it, and the encoder's pattern binds as many: one per component of a
\* Tuple variant, one for a Newtype variant, one (the record) for a Struct
\* variant.
C16_ConstructorArity ==
    (codec.pc = "variant_generated" /\ codec.variant.variant_type.k # "Simple") =>
        /\ DeclaredArity(codec.declaration) = ExpectedArity(codec.variant)
        /\ EncoderArity(codec.encoder) = ExpectedArity(codec.variant)
        /\ DecoderArity(codec.decoder) = DeclaredArity(codec.declaration)

\* the arities agree for the Tuple and Newtype variants
ArityOfTupleAndNewtype ==
    (codec.pc = "variant_generated"
         /\ codec.variant.variant_type.k \in {"Tuple", "Newtype"}) =>
        /\ DeclaredArity(codec.declaration) = ExpectedArity(codec.variant)
        /\ EncoderArity(codec.encoder) = ExpectedArity(codec.variant)
        /\ DecoderArity(codec.decoder) = ExpectedArity(codec.variant)

\* declaration and encoder of a Struct variant agree on one record
ArityOfStructDeclaredAndEncoded ==
    (codec.pc = "variant_generated" /\ codec.variant.variant_type.k = "Struct") =>
        /\ DeclaredArity(codec.declaration) = 1
        /\ EncoderArity(codec.encoder) = 1

\* a Struct variant of three fields: one record declared, three arguments
\* decoded
C16_Reached ==
    /\ codec.pc = "variant_generated"
    /\ codec.variant.variant_type.k = "Struct"
    /\ Len(codec.variant.variant_type.fields) = 3
    /\ DeclaredArity(codec.declaration) = 1
    /\ DecoderArity(codec.decoder) = 3

=============================================================================
